---- MODULE Spec2Model ----
(***************************************************************************)
(* Verification model of the filte.rs filter kernels: the trapezoidal      *)
(* Integrator (src/lib.rs), the OnePole filter and its parameter smoothing *)
(* wrapper (src/one_pole.rs), the SVF filter and its parameter smoothing   *)
(* wrapper (src/svf.rs).                                                   *)
(*                                                                         *)
(* One lane of a VFloat<N> is modelled (all operations are elementwise and *)
(* lanes never interact).  A lane value is an exact rational <<n, d>> in   *)
(* lowest terms with d > 0: rounding, infinities and NaN of the IEEE lanes *)
(* are outside the model.                                                  *)
(***************************************************************************)
EXTENDS Integers, Sequences, FiniteSets, TLC

VARIABLES integ, ih, onepole, oh, svf, sh, opp, oph, svfp, sph

vars == <<integ, ih, onepole, oh, svf, sh, opp, oph, svfp, sph>>

(* ---------------- bounds of the model ---------------- *)
MaxIntSteps == 5
MaxOnePoleSteps == 4
MaxSVFSteps == 3
MaxOnePoleParamSteps == 3
MaxSVFParamSteps == 2

(* ---------------- lane arithmetic (VFloat) ---------------- *)
AbsInt(n) == IF n < 0 THEN -n ELSE n

RECURSIVE GCD(_, _)
GCD(a, b) == IF b = 0 THEN a ELSE GCD(b, a % b)

Rat(n, d) ==
    LET k == GCD(AbsInt(n), AbsInt(d))
        sg == IF d < 0 THEN -1 ELSE 1
    IN  <<(sg * n) \div k, (sg * d) \div k>>

splat(n) == <<n, 1>>

Zero == splat(0)
One == splat(1)
Half == Rat(1, 2)

RAdd(a, b) == Rat(a[1] * b[2] + b[1] * a[2], a[2] * b[2])
RNeg(a) == <<-a[1], a[2]>>
RSub(a, b) == RAdd(a, RNeg(b))
RMul(a, b) == Rat(a[1] * b[1], a[2] * b[2])
RDiv(a, b) == Rat(a[1] * b[2], a[2] * b[1])
RAbs(a) == <<AbsInt(a[1]), a[2]>>
mul_add(a, b, c) == RAdd(RMul(a, b), c)

ISqrt(n) == CHOOSE r \in 0..n : r * r = n
sqrt(a) == <<ISqrt(a[1]), ISqrt(a[2])>>

(* ---------------- Integrator (src/lib.rs) ---------------- *)
IntegratorDefault == [s |-> Zero, out |-> Zero]

(* slip: the state accumulates the input once instead of twice *)
Integrator_process_single_add(i, x) ==
    LET out == RAdd(x, i.s)
    IN  [s |-> out, out |-> out]

Integrator_process(i, x) ==
    LET out == RAdd(x, i.s)
    IN  [s |-> RAdd(out, x), out |-> out]

Integrator_output(i) == i.out

(* slip: reset() clears the cached output instead of the state *)
Integrator_reset_clears_out(i) == [i EXCEPT !.out = splat(0)]

Integrator_reset(i) == [i EXCEPT !.s = splat(0)]

Integrator_state(i) == i.s

(* ---------------- OnePole (src/one_pole.rs) ---------------- *)
OnePoleDefault == [lp |-> IntegratorDefault, x |-> Zero]

OnePole_reset(f) == [f EXCEPT !.lp = Integrator_reset(f.lp)]

(* slip: the gain multiplies the state only, not the difference *)
OnePole_process_gain_on_state(f, x, g1) ==
    [lp |-> Integrator_process(f.lp, RSub(x, RMul(Integrator_state(f.lp), g1))),
     x |-> x]

(* slip: the feedback reads the integrator's output instead of its state *)
OnePole_process_feeds_back_output(f, x, g1) ==
    [lp |-> Integrator_process(f.lp, RMul(RSub(x, Integrator_output(f.lp)), g1)),
     x |-> x]

OnePole_process(f, x, g1) ==
    [lp |-> Integrator_process(f.lp, RMul(RSub(x, Integrator_state(f.lp)), g1)),
     x |-> x]

OnePole_get_passthrough(f) == f.x

OnePole_get_lowpass(f) == Integrator_output(f.lp)

(* slip: operands of the subtraction swapped *)
OnePole_get_highpass_swapped(f) == RSub(OnePole_get_lowpass(f), f.x)

OnePole_get_highpass(f) == RSub(f.x, OnePole_get_lowpass(f))

OnePole_get_allpass(f) == RSub(OnePole_get_lowpass(f), OnePole_get_highpass(f))

OnePole_get_low_shelf(f, gain) ==
    mul_add(gain, OnePole_get_lowpass(f), OnePole_get_highpass(f))

OnePole_get_high_shelf(f, gain) ==
    mul_add(gain, OnePole_get_highpass(f), OnePole_get_lowpass(f))

(* ---------------- SVF (src/svf.rs) ---------------- *)
SVFDefault ==
    [x |-> Zero, hp |-> Zero, bp |-> IntegratorDefault, bp1 |-> Zero,
     lp |-> IntegratorDefault]

(* slip: reset() restores the whole filter to its default *)
SVF_reset_everything(f) == SVFDefault

SVF_reset(f) ==
    [f EXCEPT !.bp = Integrator_reset(f.bp), !.lp = Integrator_reset(f.lp)]

(* slip: the resonance is left out of the denominator of hp *)
SVF_process_denominator_without_res(f, x, g, res) ==
    LET bp_s == Integrator_state(f.bp)
        lp_s == Integrator_state(f.lp)
        g1 == RAdd(res, g)
        hp == RDiv(mul_add(g1, RNeg(bp_s), RSub(x, lp_s)),
                   mul_add(g, g, splat(1)))
        bpi == Integrator_process(f.bp, RMul(hp, g))
        bp == Integrator_output(bpi)
    IN  [x |-> x, hp |-> hp, bp |-> bpi, bp1 |-> RMul(bp, res),
         lp |-> Integrator_process(f.lp, RMul(bp, g))]

SVF_process(f, x, g, res) ==
    LET bp_s == Integrator_state(f.bp)
        lp_s == Integrator_state(f.lp)
        g1 == RAdd(res, g)
        hp == RDiv(mul_add(g1, RNeg(bp_s), RSub(x, lp_s)),
                   mul_add(g1, g, splat(1)))
        bpi == Integrator_process(f.bp, RMul(hp, g))
        bp == Integrator_output(bpi)
    IN  [x |-> x, hp |-> hp, bp |-> bpi, bp1 |-> RMul(bp, res),
         lp |-> Integrator_process(f.lp, RMul(bp, g))]

SVF_get_passthrough(f) == f.x

SVF_get_lowpass(f) == Integrator_output(f.lp)

SVF_get_bandpass(f) == Integrator_output(f.bp)

SVF_get_unit_bandpass(f) == f.bp1

SVF_get_highpass(f) == f.hp

SVF_get_allpass(f) == mul_add(SVF_get_unit_bandpass(f), splat(2), RNeg(f.x))

SVF_get_notch(f) == RSub(SVF_get_passthrough(f), SVF_get_unit_bandpass(f))

SVF_get_high_shelf(f, root_gain) ==
    mul_add(root_gain,
            mul_add(root_gain, SVF_get_highpass(f), SVF_get_unit_bandpass(f)),
            SVF_get_lowpass(f))

SVF_get_band_shelf(f, root_gain) ==
    mul_add(SVF_get_unit_bandpass(f), root_gain,
            RSub(SVF_get_passthrough(f), SVF_get_unit_bandpass(f)))

SVF_get_low_shelf(f, root_gain) ==
    mul_add(root_gain,
            mul_add(root_gain, SVF_get_lowpass(f), SVF_get_unit_bandpass(f)),
            SVF_get_highpass(f))

(* ---------------- external collaborators ---------------- *)
(* tan(w / 2), the map from angular cutoff to integrator gain.  Its     *)
(* values are irrational; the model uses the rational Pade approximant  *)
(* tan(y) ~ 3y / (3 - y^2), i.e. 6w / (12 - w^2), which is 0 at 0,      *)
(* increasing and positive on (0, pi) and not the identity.             *)
math_g(w) == RDiv(RMul(splat(6), w), RSub(splat(12), RMul(w, w)))

(* LogSmoother: a current value, the target and the number of ticks     *)
(* left to reach it.  A tick that does not yet reach the target moves   *)
(* the value to a point strictly between (here the midpoint; the        *)
(* geometric step itself is not rational).                              *)
LogSmootherDefault == [value |-> One, target |-> One, left |-> 0]

set_all_vals_instantly(sm, v) == [value |-> v, target |-> v, left |-> 0]

set_target(sm, v, inc) == [value |-> sm.value, target |-> v, left |-> inc]

tick1(sm) ==
    IF sm.left = 0 THEN sm
    ELSE IF sm.left = 1 THEN [sm EXCEPT !.value = sm.target, !.left = 0]
    ELSE [sm EXCEPT !.value = RMul(Half, RAdd(sm.value, sm.target)),
                    !.left = sm.left - 1]

(* ---------------- OnePoleParamsSmoothed (src/one_pole.rs) ---------------- *)
one_pole_g1(w_c) ==
    LET g == RAbs(math_g(w_c))
    IN  RDiv(g, RAdd(splat(1), g))

OnePoleParamsDefault == [g1 |-> LogSmootherDefault, k |-> LogSmootherDefault]

OnePoleParams_get_g1(p) == p.g1.value

OnePoleParams_get_gain(p) == p.k.value

OnePoleParams_set_values(p, g, k) ==
    [g1 |-> set_all_vals_instantly(p.g1, one_pole_g1(g)),
     k |-> set_all_vals_instantly(p.k, k)]

OnePoleParams_set_params(p, w_c, gain) ==
    OnePoleParams_set_values(p, math_g(w_c), gain)

OnePoleParams_set_params_low_shelving(p, w_c, gain) ==
    [k |-> set_all_vals_instantly(p.k, gain),
     g1 |-> set_all_vals_instantly(p.g1, RDiv(math_g(w_c), sqrt(gain)))]

OnePoleParams_set_params_high_shelving(p, w_c, gain) ==
    [k |-> set_all_vals_instantly(p.k, gain),
     g1 |-> set_all_vals_instantly(p.g1, RMul(math_g(w_c), sqrt(gain)))]

OnePoleParams_set_values_smoothed(p, g, k, inc) ==
    [g1 |-> set_target(p.g1, one_pole_g1(g), inc),
     k |-> set_target(p.k, k, inc)]

OnePoleParams_set_params_smoothed(p, w_c, gain, inc) ==
    OnePoleParams_set_values_smoothed(p, math_g(w_c), gain, inc)

OnePoleParams_set_params_low_shelving_smoothed(p, w_c, gain, inc) ==
    OnePoleParams_set_values_smoothed(p, RDiv(math_g(w_c), sqrt(gain)), gain, inc)

OnePoleParams_set_params_high_shelving_smoothed(p, w_c, gain, inc) ==
    OnePoleParams_set_values_smoothed(p, RMul(math_g(w_c), sqrt(gain)), gain, inc)

OnePoleParams_update_smoothers(p) == [g1 |-> tick1(p.g1), k |-> tick1(p.k)]

(* ---------------- SVFParamsSmoothed (src/svf.rs) ---------------- *)
SVFParamsDefault ==
    [g |-> LogSmootherDefault, r |-> LogSmootherDefault, k |-> LogSmootherDefault]

SVFParams_get_g(p) == p.g.value

SVFParams_get_res(p) == p.r.value

SVFParams_get_root_gain(p) == p.k.value

SVFParams_set_values(p, g, res, gain) ==
    [k |-> set_all_vals_instantly(p.k, gain),
     g |-> set_all_vals_instantly(p.g, g),
     r |-> set_all_vals_instantly(p.r, res)]

SVFParams_set_params_low_shelving(p, w_c, res, gain) ==
    LET m2 == sqrt(gain)
    IN  SVFParams_set_values(p, RDiv(math_g(w_c), sqrt(m2)), res, m2)

SVFParams_set_params_band_shelving(p, w_c, res, gain) ==
    SVFParams_set_values(p, math_g(w_c), RDiv(res, sqrt(gain)), gain)

SVFParams_set_params_high_shelving(p, w_c, res, gain) ==
    LET m2 == sqrt(gain)
    IN  SVFParams_set_values(p, RMul(math_g(w_c), sqrt(m2)), res, m2)

SVFParams_set_params(p, w_c, res, gain) ==
    SVFParams_set_values(p, math_g(w_c), res, gain)

SVFParams_set_values_smoothed(p, g, res, gain, inc) ==
    [k |-> set_target(p.k, gain, inc),
     g |-> set_target(p.g, g, inc),
     r |-> set_target(p.r, res, inc)]

SVFParams_set_params_low_shelving_smoothed(p, w_c, res, gain, inc) ==
    LET m2 == sqrt(gain)
    IN  SVFParams_set_values_smoothed(p, RDiv(math_g(w_c), sqrt(m2)), res, m2, inc)

SVFParams_set_params_band_shelving_smoothed(p, w_c, res, gain, inc) ==
    SVFParams_set_values_smoothed(p, math_g(w_c), RDiv(res, sqrt(gain)), gain, inc)

SVFParams_set_params_high_shelving_smoothed(p, w_c, res, gain, inc) ==
    LET m2 == sqrt(gain)
    IN  SVFParams_set_values_smoothed(p, RMul(math_g(w_c), sqrt(m2)), res, m2, inc)

SVFParams_set_params_smoothed(p, w_c, res, gain, inc) ==
    [g |-> set_target(p.g, math_g(w_c), inc),
     r |-> set_target(p.r, res, inc),
     k |-> set_all_vals_instantly(p.k, gain)]

SVFParams_tick_all_smoothers(p) ==
    [k |-> tick1(p.k), r |-> tick1(p.r), g |-> tick1(p.g)]

(* ---------------- inputs ---------------- *)
W_cs == {splat(1), splat(2)}
Gains == {One, splat(16)}
Incs == {1, 2}
ParamResonances == {One, splat(2)}
Gs == {Zero, Half, One}
Resonances == {Zero, One}
RootGains == {Half, splat(2)}
Samples == {splat(-1), splat(0), splat(1)}
Thetas == {Zero, Half, One}

(* ---------------- initial state ---------------- *)
(* The filters start from their derived Default (all lanes 0).  The     *)
(* source has no constructor for the two parameter wrappers; their      *)
(* smoothers start at rest on the neutral coefficient 1.                *)
IntegHist0 ==
    [last |-> "new", x |-> Zero, s_prev |-> Zero, zrun |-> -1,
     resetFrom |-> Zero, n |-> 0]

OnePoleHist0 ==
    [last |-> "new", n |-> 0, run |-> 0, lp0 |-> Zero, s0 |-> Zero,
     scen |-> 0, lpPrev |-> Zero]

NoCall == [call |-> "new", w_c |-> Zero, res |-> Zero, gain |-> Zero, inc |-> 0]

ParamsHist0 == [last |-> NoCall, prev |-> NoCall, n |-> 0]

SVFHist0 ==
    [last |-> "new", n |-> 0, x |-> Zero, g |-> Zero, res |-> Zero,
     pre |-> SVFDefault]

Init ==
    /\ integ = IntegratorDefault
    /\ ih = IntegHist0
    /\ onepole = OnePoleDefault
    /\ oh = OnePoleHist0
    /\ svf = SVFDefault
    /\ sh = SVFHist0
    /\ opp = OnePoleParamsDefault
    /\ oph = ParamsHist0
    /\ svfp = SVFParamsDefault
    /\ sph = ParamsHist0

(* ---------------- Integrator driven directly ---------------- *)
(* ih records the call history: the last call, its argument, state()     *)
(* before it, and zrun = number of process(0) calls made since the last  *)
(* reset() with nothing else in between (-1: not in such a run).         *)
IntegratorProcess ==
    \E x \in Samples :
        /\ ih.n < MaxIntSteps
        /\ integ' = Integrator_process(integ, x)
        /\ ih' = [ih EXCEPT !.last = "process", !.x = x,
                            !.s_prev = Integrator_state(integ),
                            !.zrun = IF ih.zrun >= 0 /\ x = Zero
                                     THEN ih.zrun + 1 ELSE -1,
                            !.n = ih.n + 1]
        /\ UNCHANGED <<onepole, oh, svf, sh, opp, oph, svfp, sph>>

IntegratorReset ==
    /\ ih.n < MaxIntSteps
    /\ integ' = Integrator_reset(integ)
    /\ ih' = [ih EXCEPT !.last = "reset", !.zrun = 0,
                        !.s_prev = Integrator_state(integ),
                        !.resetFrom = Integrator_state(integ),
                        !.n = ih.n + 1]
    /\ UNCHANGED <<onepole, oh, svf, sh, opp, oph, svfp, sph>>

NextIntegrator == IntegratorProcess \/ IntegratorReset

SpecIntegrator == Init /\ [][NextIntegrator]_vars

(* ---------------- OnePole driven sample by sample ---------------- *)
(* oh records: run = number of consecutive process(x, 0) calls ending    *)
(* now, lp0 / s0 = get_lowpass() / lp.state() just before that run;      *)
(* scen = k when the whole history since construction is exactly k       *)
(* process calls with theta = 1/2 fed the unit impulse 1, 0, 0, ...      *)
(* (-1 otherwise); lpPrev = get_lowpass() before the last call.          *)
OnePoleProcess ==
    \E x \in Samples, theta \in Thetas :
        /\ oh.n < MaxOnePoleSteps
        /\ onepole' = OnePole_process(onepole, x, theta)
        /\ oh' = [last |-> "process", n |-> oh.n + 1,
                  run |-> IF theta = Zero THEN oh.run + 1 ELSE 0,
                  lp0 |-> IF oh.run = 0 THEN OnePole_get_lowpass(onepole) ELSE oh.lp0,
                  s0 |-> IF oh.run = 0 THEN Integrator_state(onepole.lp) ELSE oh.s0,
                  scen |-> IF /\ oh.scen >= 0
                              /\ theta = Half
                              /\ x = (IF oh.scen = 0 THEN One ELSE Zero)
                           THEN oh.scen + 1 ELSE -1,
                  lpPrev |-> OnePole_get_lowpass(onepole)]
        /\ UNCHANGED <<integ, ih, svf, sh, opp, oph, svfp, sph>>

OnePoleReset ==
    /\ oh.n < MaxOnePoleSteps
    /\ onepole' = OnePole_reset(onepole)
    /\ oh' = [oh EXCEPT !.last = "reset", !.n = oh.n + 1, !.run = 0,
                        !.scen = -1,
                        !.lpPrev = OnePole_get_lowpass(onepole)]
    /\ UNCHANGED <<integ, ih, svf, sh, opp, oph, svfp, sph>>

NextOnePole == OnePoleProcess \/ OnePoleReset

SpecOnePole == Init /\ [][NextOnePole]_vars

(* ---------------- SVF driven sample by sample ---------------- *)
(* sh records the last call, its arguments and the filter as it was just *)
(* before the call.                                                      *)
SVFProcess ==
    \E x \in Samples, g \in Gs, res \in Resonances :
        /\ sh.n < MaxSVFSteps
        /\ svf' = SVF_process(svf, x, g, res)
        /\ sh' = [last |-> "process", n |-> sh.n + 1, x |-> x, g |-> g,
                  res |-> res, pre |-> svf]
        /\ UNCHANGED <<integ, ih, onepole, oh, opp, oph, svfp, sph>>

SVFReset ==
    /\ sh.n < MaxSVFSteps
    /\ svf' = SVF_reset(svf)
    /\ sh' = [sh EXCEPT !.last = "reset", !.n = sh.n + 1, !.pre = svf]
    /\ UNCHANGED <<integ, ih, onepole, oh, opp, oph, svfp, sph>>

NextSVF == SVFProcess \/ SVFReset

SpecSVF == Init /\ [][NextSVF]_vars

(* ---------------- the parameter wrappers driven by their callers ---------------- *)
(* oph / sph record the last two calls made on the wrapper with their   *)
(* arguments.                                                           *)
Called(h, call, w_c, res, gain, inc) ==
    [last |-> [call |-> call, w_c |-> w_c, res |-> res, gain |-> gain, inc |-> inc],
     prev |-> h.last, n |-> h.n + 1]

OnePoleSetParams ==
    \E w_c \in W_cs, gain \in Gains :
        /\ oph.n < MaxOnePoleParamSteps
        /\ opp' = OnePoleParams_set_params(opp, w_c, gain)
        /\ oph' = Called(oph, "set_params", w_c, Zero, gain, 0)
        /\ UNCHANGED <<integ, ih, onepole, oh, svf, sh, svfp, sph>>

OnePoleSetParamsLowShelving ==
    \E w_c \in W_cs, gain \in Gains :
        /\ oph.n < MaxOnePoleParamSteps
        /\ opp' = OnePoleParams_set_params_low_shelving(opp, w_c, gain)
        /\ oph' = Called(oph, "set_params_low_shelving", w_c, Zero, gain, 0)
        /\ UNCHANGED <<integ, ih, onepole, oh, svf, sh, svfp, sph>>

OnePoleSetParamsHighShelving ==
    \E w_c \in W_cs, gain \in Gains :
        /\ oph.n < MaxOnePoleParamSteps
        /\ opp' = OnePoleParams_set_params_high_shelving(opp, w_c, gain)
        /\ oph' = Called(oph, "set_params_high_shelving", w_c, Zero, gain, 0)
        /\ UNCHANGED <<integ, ih, onepole, oh, svf, sh, svfp, sph>>

OnePoleSetParamsSmoothed ==
    \E w_c \in W_cs, gain \in Gains, inc \in Incs :
        /\ oph.n < MaxOnePoleParamSteps
        /\ opp' = OnePoleParams_set_params_smoothed(opp, w_c, gain, inc)
        /\ oph' = Called(oph, "set_params_smoothed", w_c, Zero, gain, inc)
        /\ UNCHANGED <<integ, ih, onepole, oh, svf, sh, svfp, sph>>

OnePoleSetParamsLowShelvingSmoothed ==
    \E w_c \in W_cs, gain \in Gains, inc \in Incs :
        /\ oph.n < MaxOnePoleParamSteps
        /\ opp' = OnePoleParams_set_params_low_shelving_smoothed(opp, w_c, gain, inc)
        /\ oph' = Called(oph, "set_params_low_shelving_smoothed", w_c, Zero, gain, inc)
        /\ UNCHANGED <<integ, ih, onepole, oh, svf, sh, svfp, sph>>

OnePoleSetParamsHighShelvingSmoothed ==
    \E w_c \in W_cs, gain \in Gains, inc \in Incs :
        /\ oph.n < MaxOnePoleParamSteps
        /\ opp' = OnePoleParams_set_params_high_shelving_smoothed(opp, w_c, gain, inc)
        /\ oph' = Called(oph, "set_params_high_shelving_smoothed", w_c, Zero, gain, inc)
        /\ UNCHANGED <<integ, ih, onepole, oh, svf, sh, svfp, sph>>

OnePoleUpdateSmoothers ==
    /\ oph.n < MaxOnePoleParamSteps
    /\ opp' = OnePoleParams_update_smoothers(opp)
    /\ oph' = Called(oph, "update_smoothers", Zero, Zero, Zero, 0)
    /\ UNCHANGED <<integ, ih, onepole, oh, svf, sh, svfp, sph>>

NextOnePoleParams ==
    \/ OnePoleSetParams
    \/ OnePoleSetParamsLowShelving
    \/ OnePoleSetParamsHighShelving
    \/ OnePoleSetParamsSmoothed
    \/ OnePoleSetParamsLowShelvingSmoothed
    \/ OnePoleSetParamsHighShelvingSmoothed
    \/ OnePoleUpdateSmoothers

SpecOnePoleParams == Init /\ [][NextOnePoleParams]_vars

SVFSetParams ==
    \E w_c \in W_cs, res \in ParamResonances, gain \in Gains :
        /\ sph.n < MaxSVFParamSteps
        /\ svfp' = SVFParams_set_params(svfp, w_c, res, gain)
        /\ sph' = Called(sph, "set_params", w_c, res, gain, 0)
        /\ UNCHANGED <<integ, ih, onepole, oh, svf, sh, opp, oph>>

SVFSetParamsLowShelving ==
    \E w_c \in W_cs, res \in ParamResonances, gain \in Gains :
        /\ sph.n < MaxSVFParamSteps
        /\ svfp' = SVFParams_set_params_low_shelving(svfp, w_c, res, gain)
        /\ sph' = Called(sph, "set_params_low_shelving", w_c, res, gain, 0)
        /\ UNCHANGED <<integ, ih, onepole, oh, svf, sh, opp, oph>>

SVFSetParamsBandShelving ==
    \E w_c \in W_cs, res \in ParamResonances, gain \in Gains :
        /\ sph.n < MaxSVFParamSteps
        /\ svfp' = SVFParams_set_params_band_shelving(svfp, w_c, res, gain)
        /\ sph' = Called(sph, "set_params_band_shelving", w_c, res, gain, 0)
        /\ UNCHANGED <<integ, ih, onepole, oh, svf, sh, opp, oph>>

SVFSetParamsHighShelving ==
    \E w_c \in W_cs, res \in ParamResonances, gain \in Gains :
        /\ sph.n < MaxSVFParamSteps
        /\ svfp' = SVFParams_set_params_high_shelving(svfp, w_c, res, gain)
        /\ sph' = Called(sph, "set_params_high_shelving", w_c, res, gain, 0)
        /\ UNCHANGED <<integ, ih, onepole, oh, svf, sh, opp, oph>>

SVFSetParamsSmoothed ==
    \E w_c \in W_cs, res \in ParamResonances, gain \in Gains, inc \in Incs :
        /\ sph.n < MaxSVFParamSteps
        /\ svfp' = SVFParams_set_params_smoothed(svfp, w_c, res, gain, inc)
        /\ sph' = Called(sph, "set_params_smoothed", w_c, res, gain, inc)
        /\ UNCHANGED <<integ, ih, onepole, oh, svf, sh, opp, oph>>

SVFSetParamsLowShelvingSmoothed ==
    \E w_c \in W_cs, res \in ParamResonances, gain \in Gains, inc \in Incs :
        /\ sph.n < MaxSVFParamSteps
        /\ svfp' = SVFParams_set_params_low_shelving_smoothed(svfp, w_c, res, gain, inc)
        /\ sph' = Called(sph, "set_params_low_shelving_smoothed", w_c, res, gain, inc)
        /\ UNCHANGED <<integ, ih, onepole, oh, svf, sh, opp, oph>>

SVFSetParamsBandShelvingSmoothed ==
    \E w_c \in W_cs, res \in ParamResonances, gain \in Gains, inc \in Incs :
        /\ sph.n < MaxSVFParamSteps
        /\ svfp' = SVFParams_set_params_band_shelving_smoothed(svfp, w_c, res, gain, inc)
        /\ sph' = Called(sph, "set_params_band_shelving_smoothed", w_c, res, gain, inc)
        /\ UNCHANGED <<integ, ih, onepole, oh, svf, sh, opp, oph>>

SVFSetParamsHighShelvingSmoothed ==
    \E w_c \in W_cs, res \in ParamResonances, gain \in Gains, inc \in Incs :
        /\ sph.n < MaxSVFParamSteps
        /\ svfp' = SVFParams_set_params_high_shelving_smoothed(svfp, w_c, res, gain, inc)
        /\ sph' = Called(sph, "set_params_high_shelving_smoothed", w_c, res, gain, inc)
        /\ UNCHANGED <<integ, ih, onepole, oh, svf, sh, opp, oph>>

SVFTickAllSmoothers ==
    /\ sph.n < MaxSVFParamSteps
    /\ svfp' = SVFParams_tick_all_smoothers(svfp)
    /\ sph' = Called(sph, "tick_all_smoothers", Zero, Zero, Zero, 0)
    /\ UNCHANGED <<integ, ih, onepole, oh, svf, sh, opp, oph>>

NextSVFParams ==
    \/ SVFSetParams
    \/ SVFSetParamsLowShelving
    \/ SVFSetParamsBandShelving
    \/ SVFSetParamsHighShelving
    \/ SVFSetParamsSmoothed
    \/ SVFSetParamsLowShelvingSmoothed
    \/ SVFSetParamsBandShelvingSmoothed
    \/ SVFSetParamsHighShelvingSmoothed
    \/ SVFTickAllSmoothers

SpecSVFParams == Init /\ [][NextSVFParams]_vars

(* every output accessor of the SVF, read at once *)
SVFOutputs(f) ==
    [passthrough |-> SVF_get_passthrough(f),
     lowpass |-> SVF_get_lowpass(f),
     bandpass |-> SVF_get_bandpass(f),
     unit_bandpass |-> SVF_get_unit_bandpass(f),
     highpass |-> SVF_get_highpass(f),
     allpass |-> SVF_get_allpass(f),
     notch |-> SVF_get_notch(f),
     high_shelf |-> [m \in RootGains |-> SVF_get_high_shelf(f, m)],
     band_shelf |-> [m \in RootGains |-> SVF_get_band_shelf(f, m)],
     low_shelf |-> [m \in RootGains |-> SVF_get_low_shelf(f, m)]]

(* C1 -- Integrator identity: right after any process(x), state() equals  *)
(* output() + x, and output() equals x + the state() held before the call *)
C1_IntegratorIdentity ==
    ih.last = "process" =>
        /\ Integrator_state(integ) = RAdd(Integrator_output(integ), ih.x)
        /\ Integrator_output(integ) = RAdd(ih.x, ih.s_prev)

C1_Witness ==
    /\ ih.last = "process"
    /\ ih.x # Zero
    /\ ih.s_prev # Zero
    /\ ih.n >= 3

(* C3 -- Reset idempotence: after reset() followed by n >= 1 calls of     *)
(* process(0), output() and state() are both 0 after each of those calls  *)
C3_ResetIdempotence ==
    ih.zrun >= 1 =>
        /\ Integrator_output(integ) = Zero
        /\ Integrator_state(integ) = Zero

C3_Witness ==
    /\ ih.zrun >= 2
    /\ ih.resetFrom # Zero

(* C2 -- OnePole shape complementarity: in every reachable state          *)
(* get_lowpass() + get_highpass() equals get_passthrough() and            *)
(* get_allpass() equals get_lowpass() - get_highpass()                    *)
C2_ShapeComplementarity ==
    /\ RAdd(OnePole_get_lowpass(onepole), OnePole_get_highpass(onepole))
           = OnePole_get_passthrough(onepole)
    /\ OnePole_get_allpass(onepole)
           = RSub(OnePole_get_lowpass(onepole), OnePole_get_highpass(onepole))
    /\ OnePole_get_allpass(onepole)
           = RSub(RAdd(OnePole_get_lowpass(onepole), OnePole_get_lowpass(onepole)),
                  OnePole_get_passthrough(onepole))

C2_Witness ==
    /\ oh.last = "reset"
    /\ OnePole_get_lowpass(onepole) # Zero
    /\ OnePole_get_highpass(onepole) # Zero
    /\ OnePole_get_lowpass(onepole) # OnePole_get_highpass(onepole)

(* C4 (as claimed) -- during a run of consecutive process(x, theta = 0)   *)
(* calls get_lowpass() stays equal to the value get_lowpass() had just    *)
(* before the run began                                                   *)
C4_LowpassKeepsPreRunOutput ==
    oh.run >= 1 => OnePole_get_lowpass(onepole) = oh.lp0

(* C4 (amended) -- during a run of consecutive process(x, theta = 0)      *)
(* calls get_lowpass() equals, after every call of the run, the           *)
(* integrator state() held just before the run began, and the state       *)
(* itself does not move                                                   *)
C4_LowpassHoldsPreRunState ==
    oh.run >= 1 =>
        /\ OnePole_get_lowpass(onepole) = oh.s0
        /\ Integrator_state(onepole.lp) = oh.s0

C4_Witness ==
    /\ oh.run >= 2
    /\ oh.s0 # oh.lp0
    /\ oh.s0 # Zero
    /\ OnePole_get_passthrough(onepole) # Zero

(* C8 -- impulse scenario: a fresh OnePole with theta = 1/2 fed 1, 0, 0,  *)
(* ... has lowpass = highpass = 1/2 at sample 0, and from sample 1 on     *)
(* each lowpass value is the previous one times the fixed ratio           *)
(* 1 - 2 * theta = 0, of magnitude below 1                                *)
ImpulseRatio == RSub(One, RMul(splat(2), Half))

C8_ImpulseScenario ==
    /\ RAbs(ImpulseRatio)[1] < RAbs(ImpulseRatio)[2]
    /\ oh.scen = 1 =>
           /\ OnePole_get_lowpass(onepole) = Half
           /\ OnePole_get_highpass(onepole) = Half
    /\ oh.scen = 2 => OnePole_get_lowpass(onepole) = Half
    /\ oh.scen >= 3 =>
           OnePole_get_lowpass(onepole) = RMul(ImpulseRatio, oh.lpPrev)

C8_Witness ==
    /\ oh.scen >= 4
    /\ OnePole_get_lowpass(onepole) = Zero

(* C9 -- Reset touches integrator state only: right after SVF::reset()    *)
(* both integrators (each reset by Integrator::reset()) have state() = 0  *)
(* and the output() they had before; x, hp and bp1 are unchanged, and     *)
(* every SVF output accessor returns what it returned just before reset   *)
C9_ResetTouchesStateOnly ==
    sh.last = "reset" =>
        /\ Integrator_state(svf.bp) = Zero
        /\ Integrator_state(svf.lp) = Zero
        /\ Integrator_output(svf.bp) = Integrator_output(sh.pre.bp)
        /\ Integrator_output(svf.lp) = Integrator_output(sh.pre.lp)
        /\ svf.x = sh.pre.x
        /\ svf.hp = sh.pre.hp
        /\ svf.bp1 = sh.pre.bp1
        /\ SVFOutputs(svf) = SVFOutputs(sh.pre)

C9_Witness ==
    /\ sh.last = "reset"
    /\ Integrator_state(sh.pre.bp) # Zero
    /\ Integrator_state(sh.pre.lp) # Zero
    /\ Integrator_output(svf.bp) # Zero
    /\ Integrator_output(svf.lp) # Zero
    /\ svf.hp # Zero
    /\ svf.bp1 # Zero

(* C10 -- zero-delay feedback solution: right after process(x, g, res)    *)
(* the stored highpass satisfies hp * (1 + (res + g) * g) = x - lp_state  *)
(* - (res + g) * bp_state with both states read before the call, so that  *)
(* highpass + unit_bandpass + lowpass = passthrough, with unit_bandpass = *)
(* res * bandpass, bandpass = g * hp + bp_state and lowpass = g *         *)
(* bandpass + lp_state                                                    *)
C10_ZeroDelayFeedback ==
    sh.last = "process" =>
        LET bp_state == Integrator_state(sh.pre.bp)
            lp_state == Integrator_state(sh.pre.lp)
            g1 == RAdd(sh.res, sh.g)
            hp == SVF_get_highpass(svf)
        IN  /\ RMul(hp, RAdd(One, RMul(g1, sh.g)))
                   = RSub(RSub(sh.x, lp_state), RMul(g1, bp_state))
            /\ RAdd(RAdd(hp, SVF_get_unit_bandpass(svf)), SVF_get_lowpass(svf))
                   = SVF_get_passthrough(svf)
            /\ SVF_get_passthrough(svf) = sh.x
            /\ SVF_get_unit_bandpass(svf) = RMul(sh.res, SVF_get_bandpass(svf))
            /\ SVF_get_bandpass(svf) = RAdd(RMul(sh.g, hp), bp_state)
            /\ SVF_get_lowpass(svf)
                   = RAdd(RMul(sh.g, SVF_get_bandpass(svf)), lp_state)

C10_Witness ==
    /\ sh.last = "process"
    /\ Integrator_state(sh.pre.bp) # Zero
    /\ Integrator_state(sh.pre.lp) # Zero
    /\ sh.g # Zero
    /\ sh.res # Zero
    /\ sh.x # Zero
    /\ SVF_get_highpass(svf) # Zero

(* ---------------- the parameter wrappers ---------------- *)
InstantCalls ==
    {"set_params", "set_params_low_shelving", "set_params_band_shelving",
     "set_params_high_shelving"}

SmoothedOf ==
    [c \in InstantCalls |->
        CASE c = "set_params" -> "set_params_smoothed"
          [] c = "set_params_low_shelving" -> "set_params_low_shelving_smoothed"
          [] c = "set_params_band_shelving" -> "set_params_band_shelving_smoothed"
          [] c = "set_params_high_shelving" -> "set_params_high_shelving_smoothed"]

SmoothedCalls == {SmoothedOf[c] : c \in InstantCalls}

(* the last call is the smoothed setter of the family whose instant      *)
(* setter was called just before it, with the same w_c, res and gain     *)
InstantThenSmoothed(h) ==
    /\ h.prev.call \in InstantCalls
    /\ h.last.call = SmoothedOf[h.prev.call]
    /\ h.last.w_c = h.prev.w_c
    /\ h.last.res = h.prev.res
    /\ h.last.gain = h.prev.gain

(* C5 -- every set_params*_smoothed call hands each coefficient the       *)
(* wrapper owns to its smoother as a target to reach in inc ticks, and    *)
(* changes the current value of none of them                              *)
C5_SmoothedCallsOnlySetTargets ==
    [][/\ (sph'.n = sph.n + 1 /\ sph'.last.call \in SmoothedCalls) =>
              \A c \in {"g", "r", "k"} :
                  /\ svfp'[c].value = svfp[c].value
                  /\ svfp'[c].left = sph'.last.inc
       /\ (oph'.n = oph.n + 1 /\ oph'.last.call \in SmoothedCalls) =>
              \A c \in {"g1", "k"} :
                  /\ opp'[c].value = opp[c].value
                  /\ opp'[c].left = oph'.last.inc]_vars

(* C6 -- the instant and the smoothed setter of one family derive the     *)
(* same coefficients: when the smoothed setter is called right after the  *)
(* instant one with the same arguments, the target it sets for each       *)
(* coefficient is the value the instant setter wrote                      *)
C6_InstantAndSmoothedAgree ==
    /\ InstantThenSmoothed(oph) =>
           \A c \in {"g1", "k"} : opp[c].target = opp[c].value
    /\ InstantThenSmoothed(sph) =>
           \A c \in {"g", "r", "k"} : svfp[c].target = svfp[c].value

(* C7 -- OnePole plain-mode derivation: after set_params(w_c, gain)       *)
(* get_g1() is g / (1 + g) with g = tan(w_c / 2) applied once to w_c, and *)
(* set_params_smoothed sets that same value as the target                 *)
PlainTheta(w_c) == RDiv(math_g(w_c), RAdd(One, math_g(w_c)))

C7_PlainCoefficient ==
    /\ oph.last.call = "set_params" =>
           OnePoleParams_get_g1(opp) = PlainTheta(oph.last.w_c)
    /\ oph.last.call = "set_params_smoothed" =>
           opp.g1.target = PlainTheta(oph.last.w_c)

====
